---- MODULE Spec2Model ----
(***************************************************************************)
(* TimeSeriesAnalysis (src/TimeSeriesAnalysis.py) driven as in src/main.py: *)
(* an object is constructed from a delimited file (read_csv, column check,  *)
(* sample rate, constants, bin edges) and the four chart methods are then   *)
(* called on it.                                                            *)
(*                                                                          *)
(* Numbers.  A cell of the table is a triple <<kind, p, q>>:                *)
(*   <<"num", p, q>>    the rational p/q (q > 0, lowest terms)              *)
(*   <<"sqrt", p, q>>   the irrational square root of p/q                   *)
(*   <<"nan", 0, 1>>    NaN                                                 *)
(*   <<"str", id, 1>>   a non-numeric token of the file                     *)
(*   <<"numstr", v, 1>> the text of the number v in a column that pandas    *)
(*                      kept as strings (object dtype)                      *)
(* Column aggregates (mean, median, rolling mean) are exact rationals.      *)
(* bins_list is pure float arithmetic written in the repository, so it is   *)
(* modelled bit for bit: a float is a bit string on a fixed binary grid and *)
(* every operation rounds to MantBits significant bits, ties to even, as    *)
(* IEEE-754 binary64 does.  Dependent values are naturals, so all floats    *)
(* here are non-negative.                                                   *)
(*                                                                          *)
(* Library behaviour assumed (pandas 1.2 or later, numpy): Series.mode()    *)
(* returns every most frequent value; float() of an array converts one      *)
(* element only; mean() of a text column raises; rolling() refuses          *)
(* min_periods > window; a fixed window of size w with closed='neither'     *)
(* for row r is the rows r-w+1 .. r-1; the rolling mean skips NaN.          *)
(* The constructor is given a file name, as in main.py; results/ exists.    *)
(***************************************************************************)
EXTENDS Integers, Sequences, FiniteSets, TLC

\* ---- bounds of the model ------------------------------------------------
MaxVal == 2        \* dependent values are drawn from 0..MaxVal
MaxRows == 4       \* short tables have 0..MaxRows rows
PatLen == 3        \* long tables repeat a pattern of PatLen values
MaxWindow == 3     \* long tables have RateDivisor*k rows, k in 1..MaxWindow
MaxCalls == 2      \* chart calls made on one object
IntBits == 5       \* integer bits of the float grid
FracBits == 60     \* fraction bits of the float grid

\* ---- constants of the program -------------------------------------------
MantBits == 53     \* significand of a Python float
BinCount == 10     \* bins_list: (max - min) / 10
EdgeCount == 11    \* bins_list: range(11)
RateDivisor == 30  \* __init__: len(data) / 30
MinPeriods == 1    \* line_graph_rms: min_periods=1
ExpectedColumns == 2

\* ---- rationals -----------------------------------------------------------
RECURSIVE GCD(_, _)
GCD(a, b) == IF b = 0 THEN a ELSE GCD(b, a % b)

Abs(a) == IF a < 0 THEN -a ELSE a

Rat(p, q) == LET g == GCD(Abs(p), q) IN <<p \div g, q \div g>>

RatAdd(a, b) == Rat(a[1] * b[2] + b[1] * a[2], a[2] * b[2])

RatDivInt(a, n) == Rat(a[1], a[2] * n)

Num(v) == <<"num", v, 1>>
NumR(r) == <<"num", r[1], r[2]>>
NaN == <<"nan", 0, 1>>
Str(id) == <<"str", id, 1>>
NumStr(v) == <<"numstr", v, 1>>

IsNum(c) == c[1] = "num"
IsNaN(c) == c[1] = "nan"
RatOf(c) == <<c[2], c[3]>>

\* ---- floats on a fixed binary grid ----------------------------------------
\* position k of 1..W weighs 2^(IntBits - k)
W == IntBits + FracBits

RECURSIVE Pow2(_)
Pow2(k) == IF k = 0 THEN 1 ELSE 2 * Pow2(k - 1)

FixZero == [k \in 1..W |-> 0]

IntToFix(v) == [k \in 1..W |-> IF k <= IntBits THEN (v \div Pow2(IntBits - k)) % 2 ELSE 0]

Lead(b) == IF \A k \in 1..W : b[k] = 0 THEN 0
           ELSE CHOOSE k \in 1..W : b[k] = 1 /\ \A j \in 1..(k - 1) : b[j] = 0

RECURSIVE AddBits(_, _, _, _, _)
\* ripple-carry addition from the last position up; c is the carry, acc the
\* digits so far (never longer than the grid)
AddBits(a, b, k, c, acc) ==
    IF k = 0 \/ Len(acc) > W THEN acc
    ELSE LET s == a[k] + b[k] + c
         IN IF s >= 2 THEN AddBits(a, b, k - 1, 1, <<s - 2>> \o acc)
                      ELSE AddBits(a, b, k - 1, 0, <<s>> \o acc)

\* exact sum on the grid
AddFix(a, b) == AddBits(a, b, W, 0, <<>>)

RECURSIVE SubBits(_, _, _, _, _)
\* subtraction with borrow c from the last position up
SubBits(a, b, k, c, acc) ==
    IF k = 0 \/ Len(acc) > W THEN acc
    ELSE LET s == a[k] - b[k] - c
         IN IF s < 0 THEN SubBits(a, b, k - 1, 1, <<s + 2>> \o acc)
                     ELSE SubBits(a, b, k - 1, 0, <<s>> \o acc)

\* exact difference a - b on the grid, a >= b
SubFix(a, b) == SubBits(a, b, W, 0, <<>>)

FixLeq(a, b) == \/ a = b
                \/ \E k \in 1..W : /\ a[k] < b[k]
                                   /\ \A j \in 1..(k - 1) : a[j] = b[j]

\* round an exact grid value (plus a sticky flag for what lies below the grid)
\* to MantBits significant bits, nearest, ties to even; a value whose
\* significand already ends on the grid is kept
RoundFix(b, sticky) ==
    LET L == Lead(b)
        last == L + MantBits - 1
    IN IF L = 0 \/ last >= W THEN b
       ELSE LET guard == b[last + 1]
                rest == sticky \/ \E k \in (last + 2)..W : b[k] = 1
                up == guard = 1 /\ (rest \/ b[last] = 1)
                trunc == [k \in 1..W |-> IF k <= last THEN b[k] ELSE 0]
                ulp == [k \in 1..W |-> IF k = last THEN 1 ELSE 0]
            IN IF up THEN AddFix(trunc, ulp) ELSE trunc

RECURSIVE DivBits(_, _, _, _, _)
\* long division of the grid value a by the integer m: the quotient digits on
\* the grid and whether a remainder is left below it
DivBits(a, m, k, r, acc) ==
    IF k > W \/ Len(acc) > W THEN <<acc, r # 0>>
    ELSE LET t == 2 * r + a[k]
         IN IF t >= m THEN DivBits(a, m, k + 1, t - m, Append(acc, 1))
                      ELSE DivBits(a, m, k + 1, t, Append(acc, 0))

FloatAdd(a, b) == RoundFix(AddFix(a, b), FALSE)

FloatSub(a, b) == RoundFix(SubFix(a, b), FALSE)

FloatDivInt(a, m) == LET d == DivBits(a, m, 1, 0, <<>>) IN RoundFix(d[1], d[2])

\* float('nan'): the grid value whose every digit is 2
FloatNaN == [k \in 1..W |-> 2]

FAdd(a, b) == IF a = FloatNaN \/ b = FloatNaN THEN FloatNaN ELSE FloatAdd(a, b)

\* a - b; in bins_list a is the column maximum and b the minimum
FSub(a, b) == IF a = FloatNaN \/ b = FloatNaN THEN FloatNaN ELSE FloatSub(a, b)

FDiv(a, m) == IF a = FloatNaN THEN FloatNaN ELSE FloatDivInt(a, m)

\* float(v) succeeds on a number, on NaN and on the text of a number
FloatOk(c) == c[1] \in {"num", "nan", "numstr"}

FloatOf(c) == IF c[1] = "nan" THEN FloatNaN ELSE IntToFix(c[2])

\* ---- the input file --------------------------------------------------------
\* a file is a sequence of columns (a header row is implied); a column is a
\* sequence of tokens
Tokens == {Num(v) : v \in 0..MaxVal} \cup {Str(1)}

ShortCols == UNION {[1..n -> Tokens] : n \in 0..MaxRows}

LongCols == {[i \in 1..(RateDivisor * k) |-> Num(p[((i - 1) % PatLen) + 1])] :
                p \in [1..PatLen -> 0..MaxVal], k \in 1..MaxWindow}

TimeCol(n) == [i \in 1..n |-> Num(i - 1)]

ExtraCol(n) == [i \in 1..n |-> Num(0)]

File(k, y) == SubSeq(<<TimeCol(Len(y)), y, ExtraCol(Len(y))>>, 1, k)

\* pd.read_csv: a column of numbers is numeric; a column holding any other
\* token keeps every cell as text
ParseColumn(col) ==
    IF \A i \in DOMAIN col : col[i][1] = "num" THEN col
    ELSE [i \in DOMAIN col |-> IF col[i][1] = "num" THEN NumStr(col[i][2]) ELSE col[i]]

ReadCsv(file) == [c \in DOMAIN file |-> ParseColumn(file[c])]

\* ---- column aggregates (pandas Series) -------------------------------------
Range(s) == {s[i] : i \in DOMAIN s}

Count(col, c) == Cardinality({i \in DOMAIN col : col[i] = c})

\* order of the cells of one column: numbers by value, text by character code
\* (digits sort before letters)
Key(c) == IF c[1] = "str" THEN MaxVal + 1 + c[2] ELSE c[2]

\* Series.max() / Series.min(): NaN on an empty column
ColMax(col) == IF col = <<>> THEN NaN
               ELSE CHOOSE c \in Range(col) : \A d \in Range(col) : Key(d) <= Key(c)

ColMin(col) == IF col = <<>> THEN NaN
               ELSE CHOOSE c \in Range(col) : \A d \in Range(col) : Key(c) <= Key(d)

\* Series.mode(): every value of the highest frequency
Modes(col) == {c \in Range(col) : \A d \in Range(col) : Count(col, d) <= Count(col, c)}

IsNumeric(col) == \A i \in DOMAIN col : col[i][1] = "num"

RECURSIVE SumInts(_, _, _)
\* the sum of col[lo..hi], by halves
SumInts(col, lo, hi) ==
    IF lo > hi THEN 0
    ELSE IF lo = hi THEN col[lo][2]
    ELSE LET mid == (lo + hi) \div 2
         IN SumInts(col, lo, mid) + SumInts(col, mid + 1, hi)

\* Series.mean() of a column of integers: NaN on an empty column
Mean(col) == IF col = <<>> THEN NaN ELSE NumR(Rat(SumInts(col, 1, Len(col)), Len(col)))

Sorted(col) == SortSeq([i \in DOMAIN col |-> col[i][2]], LAMBDA a, b : a < b)

\* Median with the lower middle value taken for an even row count
MedianLow(col) ==
    LET n == Len(col)
        srt == Sorted(col)
    IN IF n = 0 THEN NaN ELSE Num(srt[(n + 1) \div 2])

\* Series.median() of a column of integers: NaN on an empty column
Median(col) ==
    LET n == Len(col)
        srt == Sorted(col)
    IN IF n = 0 THEN NaN
       ELSE IF n % 2 = 1 THEN Num(srt[(n + 1) \div 2])
       ELSE NumR(Rat(srt[n \div 2] + srt[(n \div 2) + 1], 2))

\* ---- the object under construction ------------------------------------------
NoExc == <<"", "">>

\* __init__, the assignments before the table is used
Self0 == [row_count |-> 0, y_min_value |-> Num(0), y_max_value |-> Num(0),
          x_title |-> 0, y_title |-> 0, data |-> <<>>,
          mean_y |-> Num(0), mode_y |-> Num(0), median_y |-> Num(0),
          bins |-> <<>>, bin_range |-> FixZero, sample_rate |-> 0,
          log |-> <<>>, exc |-> NoExc]

\* Raise with the exception swallowed: the method returns what it had built
RaiseSwallowed(s, who, kind) == s

\* an exception leaves the method `who` and nothing catches it
Raise(s, who, kind) == [s EXCEPT !.exc = <<who, kind>>]

Info(s, msgs) == [s EXCEPT !.log = @ \o msgs]

LoadData(s, file) == [s EXCEPT !.data = ReadCsv(file)]

build_logger(s) == Info(s, <<"bar", "pad", "Running New File", "pad", "bar">>)

\* CheckColumns that enforces the column count instead of warning about it
CheckColumnsStrict(s) ==
    IF Len(s.data) # ExpectedColumns
    THEN Raise(Info(s, <<"warning: fewer or more than two columns",
                         "warning: ensure X and Y are the first and second columns">>),
               "__init__", "ValueError")
    ELSE s

\* the column-count check of __init__: two warnings, nothing else
CheckColumns(s) ==
    IF Len(s.data) # ExpectedColumns
    THEN Info(s, <<"warning: fewer or more than two columns",
                   "warning: ensure X and Y are the first and second columns">>)
    ELSE s

RowsOf(d) == IF d = <<>> THEN 0 ELSE Len(d[1])

\* int(len(self.data) / 30)
SampleRate(n) == n \div RateDivisor

SetSampleRate(s) ==
    IF s.exc # NoExc THEN s
    ELSE [s EXCEPT !.sample_rate = SampleRate(RowsOf(s.data))]

log_data_header(s) ==
    IF s.exc # NoExc THEN s ELSE Info(s, <<"Header", "data">>)

\* float(mode_y_series.values): one value only, and one that reads as a number
ModeError(modes) ==
    IF Cardinality(modes) # 1 THEN "TypeError"
    ELSE IF (CHOOSE m \in modes : TRUE)[1] = "str" THEN "ValueError"
    ELSE ""

ModeValue(modes) == Num((CHOOSE m \in modes : TRUE)[2])

\* calc_constants after the column titles are known
CalcStats(s) ==
    LET y == s.data[s.y_title]
        s1 == Info([s EXCEPT !.row_count = RowsOf(s.data),
                             !.y_max_value = ColMax(y),
                             !.y_min_value = ColMin(y)],
                   <<"Row Count", "Y Max value", "Y Max value", "MMM">>)
        modes == Modes(y)
    IN IF ModeError(modes) # "" THEN Raise(s1, "calc_constants", ModeError(modes))
       ELSE LET s2 == [s1 EXCEPT !.mode_y = ModeValue(modes)]
            IN IF ~IsNumeric(y) THEN Raise(s2, "calc_constants", "TypeError")
               ELSE Info([s2 EXCEPT !.mean_y = Mean(y), !.median_y = Median(y)],
                         <<"Mean/Median/Mode", "Constants calculated">>)

calc_constants(s) ==
    IF s.exc # NoExc THEN s
    ELSE LET s1 == Info(s, <<"Constants">>)
         IN IF Len(s.data) < 2 THEN Raise(s1, "calc_constants", "IndexError")
            ELSE CalcStats(Info([s1 EXCEPT !.x_title = 1, !.y_title = 2], <<"Columns">>))

RECURSIVE BinEdges(_, _, _, _)
\* the loop of bins_list: i edges still to store
BinEdges(y_new_floor, bin_range, i, acc) ==
    IF i = 0 \/ Len(acc) > EdgeCount THEN acc
    ELSE BinEdges(FAdd(y_new_floor, bin_range), bin_range, i - 1,
                  Append(acc, y_new_floor))

bins_list(s) ==
    IF s.exc # NoExc THEN s
    ELSE IF ~FloatOk(s.y_max_value) \/ ~FloatOk(s.y_min_value)
         THEN Raise(s, "bins_list", "ValueError")
    ELSE LET bin_range == FDiv(FSub(FloatOf(s.y_max_value), FloatOf(s.y_min_value)),
                               BinCount)
         IN Info([s EXCEPT !.bins = BinEdges(FloatOf(s.y_min_value), bin_range,
                                             EdgeCount, <<>>),
                           !.bin_range = bin_range],
                 <<"Bins List", "bins", "Bins calculated">>)

\* TimeSeriesAnalysis(filename)
NewObject(file) ==
    bins_list(calc_constants(log_data_header(SetSampleRate(
        CheckColumns(build_logger(LoadData(Self0, file)))))))

\* ---- line_graph_rms: square, rolling mean, square root ----------------------
IsSquare(p) == \E r \in 0..p : r * r = p

Isqrt(p) == CHOOSE r \in 0..p : r * r = p

\* np.square
SquareCell(c) ==
    IF c[1] = "num" THEN NumR(Rat(c[2] * c[2], c[3] * c[3]))
    ELSE IF c[1] = "sqrt" THEN <<"num", c[2], c[3]>>
    ELSE NaN

\* np.sqrt of a non-negative rational
SqrtCell(c) ==
    IF c[1] # "num" THEN NaN
    ELSE IF IsSquare(c[2]) /\ IsSquare(c[3]) THEN <<"num", Isqrt(c[2]), Isqrt(c[3])>>
    ELSE <<"sqrt", c[2], c[3]>>

Clip(v, lo, hi) == IF v < lo THEN lo ELSE IF v > hi THEN hi ELSE v

\* WindowBounds with the default closed='right': the row itself is in its window
WindowBoundsRight(r, w, n) ==
    LET end == r + 1
        start == end - w
    IN <<Clip(start, 0, n), Clip(end, 0, n)>>

\* pandas' fixed window of size w for row r (0-based) of n, closed='neither':
\* the rows start..end-1, both ends of (r - w, r] dropped
WindowBounds(r, w, n) ==
    LET end == r + 1
        start == end - w
    IN <<Clip(start, 0, n), Clip(end - 1, 0, n)>>

\* rolling(window=w, closed=..., min_periods=...) needs min_periods <= window
RollingError(w) == IF MinPeriods > w THEN "ValueError" ELSE ""

RECURSIVE SumCells(_, _, _)
\* the sum of the numbers among col[lo..hi] (1-based), NaN skipped
SumCells(col, lo, hi) ==
    IF lo > hi THEN <<0, 1>>
    ELSE IF IsNum(col[lo]) THEN RatAdd(RatOf(col[lo]), SumCells(col, lo + 1, hi))
    ELSE SumCells(col, lo + 1, hi)

\* .mean() of one window: NaN below min_periods observations
WindowMean(col, b) ==
    LET nobs == Cardinality({j \in (b[1] + 1)..b[2] : IsNum(col[j])})
    IN IF nobs >= MinPeriods /\ nobs > 0
       THEN NumR(RatDivInt(SumCells(col, b[1] + 1, b[2]), nobs))
       ELSE NaN

Windows(w, n) == [i \in 1..n |-> WindowBounds(i - 1, w, n)]

RollingMean(col, w) == [i \in DOMAIN col |-> WindowMean(col, WindowBounds(i - 1, w, Len(col)))]

Squares(col) == [i \in DOMAIN col |-> SquareCell(col[i])]

Roots(col) == [i \in DOMAIN col |-> SqrtCell(col[i])]

Rms(col, w) == Roots(RollingMean(Squares(col), w))

\* np.square, rolling mean and np.sqrt act on numbers only
Arithmetic(col) == \A i \in DOMAIN col : col[i][1] \in {"num", "sqrt", "nan"}

\* ---- line_graph_raw_diff ------------------------------------------------------
\* b - a: a rational when both are, else the difference as it stands
SubCell(b, a) ==
    IF IsNum(a) /\ IsNum(b) THEN NumR(Rat(b[2] * a[3] - a[2] * b[3], a[3] * b[3]))
    ELSE <<"sub", b, a>>

\* shift(-1), dropna, b - a: one entry per row whose value and successor are
\* both present
Diff(col) ==
    LET rows == SelectSeq([i \in 1..(Len(col) - 1) |-> i],
                          LAMBDA i : ~IsNaN(col[i]) /\ ~IsNaN(col[i + 1]))
    IN [k \in DOMAIN rows |-> SubCell(col[rows[k] + 1], col[rows[k]])]

\* ---- state -----------------------------------------------------------------------
\* csv      the file on disk
\* pc       "new" before the constructor runs, "ready" once it returned,
\*          "raised" once an exception left __init__ or a chart method
\* self     the object's fields and the log it writes
\* files    the charts saved under results/
\* plotted  the series last handed to each chart
\* windows  the window bounds of the last rolling mean
\* calls    chart calls made so far
VARIABLES csv, pc, self, files, plotted, windows, calls

vars == <<csv, pc, self, files, plotted, windows, calls>>

NoPlots == [histogram |-> <<>>, raw |-> <<>>, diff |-> <<>>, rms |-> <<>>]

Start(file) ==
    /\ csv = file
    /\ pc = "new"
    /\ self = Self0
    /\ files = {}
    /\ plotted = NoPlots
    /\ windows = <<>>
    /\ calls = 0

\* short files of one, two or three columns, any token in the dependent column
Init == \E k \in 1..3, y \in ShortCols : Start(File(k, y))

\* long two-column files of numbers
InitLong == \E y \in LongCols : Start(File(2, y))

\* tsa = tsa(filename)
__init__ ==
    /\ pc = "new"
    /\ self' = NewObject(csv)
    /\ pc' = IF self'.exc = NoExc THEN "ready" ELSE "raised"
    /\ UNCHANGED <<csv, files, plotted, windows, calls>>

CanCall == pc = "ready" /\ calls < MaxCalls

\* a chart method raises: nothing is saved or logged, the script ends
Fails(who, kind, d) ==
    /\ pc' = "raised"
    /\ self' = [self EXCEPT !.exc = <<who, kind>>, !.data = d]
    /\ UNCHANGED <<files, plotted>>

\* a chart method ends: the figure is saved and the elapsed time logged
Saves(who, series, msg, d) ==
    /\ pc' = pc
    /\ self' = [self EXCEPT !.log = Append(@, msg), !.data = d]
    /\ files' = files \cup {who}
    /\ plotted' = [plotted EXCEPT ![who] = series]

HasY == self.y_title \in DOMAIN self.data

YData == self.data[self.y_title]

histogram ==
    /\ CanCall
    /\ calls' = calls + 1
    /\ IF ~HasY THEN Fails("histogram", "KeyError", self.data)
       ELSE Saves("histogram", YData, "Histogram created", self.data)
    /\ UNCHANGED <<csv, windows>>

line_graph_raw ==
    /\ CanCall
    /\ calls' = calls + 1
    /\ IF ~HasY THEN Fails("raw", "KeyError", self.data)
       ELSE Saves("raw", YData, "Raw Line Graph created", self.data)
    /\ UNCHANGED <<csv, windows>>

line_graph_raw_diff ==
    /\ CanCall
    /\ calls' = calls + 1
    /\ IF ~HasY THEN Fails("diff", "KeyError", self.data)
       ELSE IF ~Arithmetic(YData) THEN Fails("diff", "TypeError", self.data)
       ELSE Saves("diff", Diff(YData), "Line Graph of Difference in Y created", self.data)
    /\ UNCHANGED <<csv, windows>>

\* df = self.data is the object's own table: each assignment to df[self.y_title]
\* rewrites self.data
line_graph_rms ==
    /\ CanCall
    /\ calls' = calls + 1
    /\ IF ~HasY THEN Fails("rms", "KeyError", self.data) /\ UNCHANGED windows
       ELSE IF ~Arithmetic(YData)
       THEN Fails("rms", "TypeError", self.data) /\ UNCHANGED windows
       ELSE IF RollingError(self.sample_rate) # ""
       THEN /\ Fails("rms", RollingError(self.sample_rate),
                     [self.data EXCEPT ![self.y_title] = Squares(YData)])
            /\ UNCHANGED windows
       ELSE /\ pc' = pc
            /\ plotted' = [plotted EXCEPT !.rms = Rms(YData, self.sample_rate)]
            /\ self' = [self EXCEPT !.log = Append(@, "Line Graph of RMS created"),
                                    !.data[self.y_title] = plotted'.rms]
            /\ files' = files \cup {"rms"}
            /\ windows' = Windows(self.sample_rate, Len(YData))
    /\ UNCHANGED csv

Next ==
    \/ __init__
    \/ histogram
    \/ line_graph_raw
    \/ line_graph_raw_diff
    \/ line_graph_rms

Spec == Init /\ [][Next]_vars

SpecLong == InitLong /\ [][Next]_vars

\* ---- what the claims speak of ---------------------------------------------------
Charts == {"histogram", "raw", "diff", "rms"}

\* the constructor returned an object (a later chart call may have raised)
Built == pc = "ready" \/ (pc = "raised" /\ self.exc[1] \in Charts)

\* the dependent column as the file holds it
FileY == csv[2]

TwoNumeric == Len(csv) = 2 /\ IsNumeric(FileY)

ValY(i) == FileY[i][2]

NRows == Len(FileY)

FileMin == CHOOSE v \in {ValY(i) : i \in 1..NRows} : \A i \in 1..NRows : v <= ValY(i)

FileMax == CHOOSE v \in {ValY(i) : i \in 1..NRows} : \A i \in 1..NRows : ValY(i) <= v

Below(x) == Cardinality({i \in 1..NRows : ValY(i) < x})

UpTo(x) == Cardinality({i \in 1..NRows : ValY(i) <= x})

\* the k-th smallest value of the dependent column
Kth(k) == CHOOSE x \in {ValY(i) : i \in 1..NRows} : Below(x) < k /\ k <= UpTo(x)

\* C1: after construction the bin edges never decrease, the first edge is the
\* minimum of the dependent column and the last edge is its maximum.
C1_BinEdgesSpanMinMax ==
    Built =>
        /\ \A i \in 1..(Len(self.bins) - 1) : FixLeq(self.bins[i], self.bins[i + 1])
        /\ self.bins[1] = IntToFix(FileMin)
        /\ self.bins[Len(self.bins)] = IntToFix(FileMax)

\* C8: the edges bound ten intervals of one width, bin_range = (max - min) / 10,
\* that partition [min, max]: consecutive edges differ by exactly self.bin_range.
C8_TenEqualWidthBins ==
    Built =>
        /\ Len(self.bins) = BinCount + 1
        /\ self.bin_range = FloatDivInt(IntToFix(FileMax - FileMin), BinCount)
        /\ \A i \in 1..(Len(self.bins) - 1) :
              /\ FixLeq(self.bins[i], self.bins[i + 1])
              /\ SubFix(self.bins[i + 1], self.bins[i]) = self.bin_range
        /\ self.bins[1] = IntToFix(FileMin)
        /\ self.bins[Len(self.bins)] = IntToFix(FileMax)

\* C2: the RMS series that line_graph_rms computes has one entry per input row,
\* and the window of entry i holds only rows before row i.
C2_RmsLengthAndWindowBeforeRow ==
    "rms" \in files =>
        /\ Len(plotted.rms) = NRows
        /\ Len(windows) = NRows
        /\ \A i \in 1..Len(windows) :
              \A r \in windows[i][1]..(windows[i][2] - 1) : r < i - 1

\* C2 witness: an RMS series was computed and some window holds two rows.
C2_Witness ==
    /\ "rms" \in files
    /\ \E i \in 1..Len(windows) : windows[i][2] - windows[i][1] >= 2

\* C3: on a constructed object no chart call raises, and every call made has
\* saved a file.
C3_ChartsNeverRaise ==
    /\ pc = "raised" => self.exc[1] \notin Charts
    /\ (Built /\ calls > 0) => files # {}

\* C4: after construction mean_y is the sum of the dependent column over its row
\* count, and self.median_y is the middle value of the sorted column (odd count) or
\* the mean of its two middle values (even count).
C4_MeanAndMedian ==
    Built =>
        /\ IsNum(self.mean_y) /\ self.mean_y[2] * NRows = SumInts(FileY, 1, NRows) * self.mean_y[3]
        /\ IsNum(self.median_y)
        /\ IF NRows % 2 = 1
           THEN self.median_y[2] = Kth((NRows + 1) \div 2) * self.median_y[3]
           ELSE 2 * self.median_y[2] = (Kth(NRows \div 2) + Kth((NRows \div 2) + 1)) * self.median_y[3]

\* C4 witness: an object over an even number of rows whose two middle values
\* differ.
C4_Witness ==
    /\ Built
    /\ NRows % 2 = 0
    /\ Kth(NRows \div 2) # Kth((NRows \div 2) + 1)
    /\ self.mean_y[3] # 1

\* C5: construction on any non-empty two-column numeric file completes and stores
\* and logs one mode of the dependent column, ties included.
C5_ModeAlwaysStored ==
    (pc # "new" /\ TwoNumeric /\ NRows > 0) =>
        /\ Built
        /\ self.mode_y \in Modes(FileY)
        /\ \E i \in DOMAIN self.log : self.log[i] = "Mean/Median/Mode"

\* C6: with a column count other than two the constructor logs its warning and
\* goes on to log_data_header and calc_constants; the check itself does not raise.
C6_ColumnCheckOnlyWarns ==
    (pc # "new" /\ Len(csv) # ExpectedColumns) =>
        /\ \E i \in DOMAIN self.log :
              /\ i + 4 <= Len(self.log)
              /\ self.log[i] = "warning: fewer or more than two columns"
              /\ self.log[i + 1] = "warning: ensure X and Y are the first and second columns"
              /\ self.log[i + 2] = "Header"
              /\ self.log[i + 3] = "data"
              /\ self.log[i + 4] = "Constants"
        /\ self.exc[1] # "__init__"

\* C6 witness: a one-column file: warned, header and constants reached, and the
\* failure comes from calc_constants.
C6_Witness ==
    /\ Len(csv) = 1
    /\ pc = "raised"
    /\ self.exc = <<"calc_constants", "IndexError">>

\* C7: construction on an empty dataset or on a non-numeric dependent column
\* raises out of the constructor; no object with placeholder statistics results.
C7_BadDataRaises ==
    (pc # "new" /\ Len(csv) >= 2 /\ (FileY = <<>> \/ ~IsNumeric(FileY))) =>
        /\ pc = "raised"
        /\ self.exc[1] = "calc_constants"
        /\ files = {}

\* C7 witness: the constructor has raised on a header-only two-column file.
C7_Witness ==
    /\ Len(csv) = 2
    /\ FileY = <<>>
    /\ pc = "raised"
    /\ self.exc = <<"calc_constants", "TypeError">>

\* the mean of the squared file values over rows lo..hi (1-based, cut at row 1)
MeanSq(lo, hi) ==
    LET l == IF lo < 1 THEN 1 ELSE lo
    IN IF l > hi THEN NaN
       ELSE NumR(Rat(SumInts([j \in 1..NRows |-> Num(ValY(j) * ValY(j))], l, hi),
                     hi - l + 1))

\* C9: on its first call line_graph_rms gives, at each defined entry, the root of
\* the mean of the squared file values over a window of self.sample_rate = n div 30
\* rows (the self.sample_rate rows ending at the row, or those ending just before it).
C9_RmsOverSampleRateRows ==
    (calls = 1 /\ "rms" \in files) =>
        /\ self.sample_rate = NRows \div RateDivisor
        /\ \E shift \in {0, 1} :
              \A i \in 1..NRows :
                 ~IsNaN(plotted.rms[i]) =>
                     SquareCell(plotted.rms[i])
                         = MeanSq(i - shift - self.sample_rate + 1, i - shift)

\* C10: chart calls leave self.data as loaded: the table, the statistics and every
\* series handed to a chart are those of the file.
C10_ChartsLeaveDataUnchanged ==
    Built =>
        /\ self.data = ReadCsv(csv)
        /\ self.y_min_value = Num(FileMin) /\ self.y_max_value = Num(FileMax)
        /\ self.mean_y = Mean(FileY) /\ self.median_y = Median(FileY)
        /\ plotted.histogram \in {<<>>, FileY}
        /\ plotted.raw \in {<<>>, FileY}

====
